---- MODULE Spec2Model ----
(***************************************************************************)
(* A model of the synthetic data export library (src/src/lib.rs):          *)
(* Column, Table, ExportFile::new, the parallel generation pipeline and    *)
(* the schema builder.                                                     *)
(*                                                                         *)
(* Decimal values are exact fractions: a Decimal d is represented by the   *)
(* integer d * PctScale.  Strings are sequences of tokens; concatenation   *)
(* of strings is concatenation of sequences.                               *)
(***************************************************************************)
EXTENDS Integers, Sequences, FiniteSets, TLC

VARIABLES
    tables,            \* argument of ExportFile::new: Vec<Table>
    data_size_bytes,   \* argument of ExportFile::new
    number_of_files,   \* argument of ExportFile::new
    ef,                \* outcome of ExportFile::new
    arg_file_size_bytes, \* argument of a direct Table::generate_table(_vec) call
    tstate,            \* per table: the state of its generate_table(_vec) call
    xstate,            \* the state of a generate_export / generate_raw_tables call
    rawtext,           \* the outcome of raw_tables_to_string
    all_files,         \* the state of a generate_all_files call
    ftask,             \* per file index: the state of its try_for_each closure
    fsys,              \* the folder: the set of its files, [path, content]
    schema             \* the outcome of build_schema

vars == <<tables, data_size_bytes, number_of_files, ef, arg_file_size_bytes,
          tstate, xstate, rawtext, all_files, ftask, fsys, schema>>

inputs == <<tables, data_size_bytes, number_of_files, arg_file_size_bytes>>

filevars == <<all_files, ftask, fsys>>

----------------------------------------------------------------------------
(* Bounds of the model *)

\* Decimals are multiples of 1/PctScale
PctScale == 4
\* data_size_bytes ranges over 0..MaxData
MaxData == 6
\* the file_size_bytes of a direct generate_table call ranges over 0..MaxFileSize
MaxFileSize == 4
\* the data_size_bytes of an ExportFile that generates ranges over 0..MaxGenData
MaxGenData == 4
\* an ExportFile that generates holds at most MaxGenTables tables
MaxGenTables == 2
\* an ExportFile whose schema is built holds at most MaxSchemaTables tables
MaxSchemaTables == 3
\* number_of_files ranges over 0..MaxFiles
MaxFiles == 3
\* table lists given to ExportFile::new hold at most MaxTables tables
MaxTables == 2

----------------------------------------------------------------------------
(* Decimal arithmetic (rust_decimal), on the scaled representation *)

\* Decimal::from(n) for an unsigned integer n
DecimalFrom(n) == n * PctScale

\* a * b for Decimals; exact whenever one operand is an integer
DecimalMul(a, b) == (a * b) \div PctScale

\* Decimal::from_str("1.0")
DecimalOne == PctScale

\* Decimal::to_u64: None for a negative value, else the truncated value
ToU64(d) == IF d < 0 THEN [some |-> FALSE, v |-> 0]
                     ELSE [some |-> TRUE, v |-> d \div PctScale]

RECURSIVE SumSeq(_)
\* Iterator::sum over a sequence of numbers
SumSeq(s) == IF s = <<>> THEN 0 ELSE Head(s) + SumSeq(Tail(s))

----------------------------------------------------------------------------
(* Column and Table *)

\* Column::new
ColumnNew(name, size, sql_type, generator) ==
    [name |-> name, size |-> size, sql_type |-> sql_type, generator |-> generator]

\* Table::new: row_size_bytes is the sum of the columns' declared sizes
TableNew(id_value, columns, delimiter, percent_size) ==
    [id_value |-> id_value, columns |-> columns, delimiter |-> delimiter,
     percent_size |-> percent_size,
     row_size_bytes |-> SumSeq([i \in 1..Len(columns) |-> columns[i].size])]

----------------------------------------------------------------------------
(* ExportFile::new *)

\* the closure of the feasibility map: the table's share of a file holds a row
Fits(t, file_size_bytes) ==
    DecimalMul(DecimalFrom(file_size_bytes), t.percent_size)
        >= DecimalFrom(t.row_size_bytes)

\* a plausible slip: the reduction made with || instead of &&
IsPossibleAny(tbls, file_size_bytes) ==
    \E i \in 1..Len(tbls) : Fits(tbls[i], file_size_bytes)

\* map(...).reduce(|x, y| x && y) over a non-empty table list
IsPossible(tbls, file_size_bytes) ==
    \A i \in 1..Len(tbls) : Fits(tbls[i], file_size_bytes)

\* tables.iter().map(|x| x.percent_size).sum()
SumPercentSize(tbls) == SumSeq([i \in 1..Len(tbls) |-> tbls[i].percent_size])

Failed(e) == [res |-> e, file_size_bytes |-> 0]

\* a plausible slip: the percentage check made before the feasibility checks
ExportFileNewSumFirst(tbls, data, files) ==
    IF SumPercentSize(tbls) # DecimalOne THEN Failed("SumPercentSizeIncorrect")
    ELSE IF files >= data THEN Failed("TooManyFiles")
    ELSE IF files = 0 THEN Failed("DivideByZeroPanic")
    ELSE IF tbls = <<>> THEN Failed("ReduceFailed")
    ELSE IF ~IsPossible(tbls, data \div files) THEN Failed("TooManyFiles")
    ELSE [res |-> "Ok", file_size_bytes |-> data \div files]

\* ExportFile::new(tables, data_size_bytes, number_of_files).  The integer
\* division by number_of_files = 0 panics.
ExportFileNew(tbls, data, files) ==
    IF files >= data THEN Failed("TooManyFiles")
    ELSE IF files = 0 THEN Failed("DivideByZeroPanic")
    ELSE LET file_size_bytes == data \div files IN
         IF tbls = <<>> THEN Failed("ReduceFailed")
         ELSE IF ~IsPossible(tbls, file_size_bytes) THEN Failed("TooManyFiles")
         ELSE IF SumPercentSize(tbls) # DecimalOne
              THEN Failed("SumPercentSizeIncorrect")
         ELSE [res |-> "Ok", file_size_bytes |-> file_size_bytes]

----------------------------------------------------------------------------
(* Inputs *)

\* fn() -> Result<String>: "abc" always returns Ok("ABC") (the tests'
\* simple_generator), "rand" returns some Ok value, "fail" returns Err
ColA == ColumnNew("a", 1, "INT", "rand")
ColB == ColumnNew("b", 2, "CHAR[3]", "abc")
ColF == ColumnNew("f", 1, "TEXT", "fail")
\* a column with the name of ColA and another type
ColA2 == ColumnNew("a", 1, "BIGINT", "abc")

PctValues == (0 - 1)..(PctScale + 1)

SeqsUpTo(S, n) == UNION {[1..k -> S] : k \in 0..n}

\* tables of the construction checks: every row size and percentage
NewTables ==
    {TableNew("A", cols, "|", p) : cols \in {<<>>, <<ColA>>, <<ColB>>}, p \in PctValues}

NotCalled == [res |-> "none", file_size_bytes |-> 0]

NoResult == [tag |-> "none", v |-> <<>>, e |-> ""]

TaskIdle == [pc |-> "idle", kind |-> "none", folders |-> <<>>, rows |-> <<>>, res |-> NoResult]

\* no generate_export / generate_raw_tables call is under way
ExportIdle == [pc |-> "idle", op |-> "none", folders |-> <<>>, res |-> NoResult]

AllFilesIdle == [pc |-> "idle", res |-> NoResult]

SchemaNotBuilt == [res |-> "none", table |-> "", column |-> "", schema |-> <<>>]

\* nothing has been called, the folder is fresh
InitRest ==
    /\ xstate = ExportIdle
    /\ rawtext = NoResult
    /\ all_files = AllFilesIdle
    /\ ftask = <<>>
    /\ fsys = {}
    /\ schema = SchemaNotBuilt

InitNew ==
    /\ tables \in SeqsUpTo(NewTables, MaxTables)
    /\ data_size_bytes \in 0..MaxData
    /\ number_of_files \in 0..MaxFiles
    /\ ef = NotCalled
    /\ arg_file_size_bytes = 0
    /\ tstate = [i \in 1..Len(tables) |-> TaskIdle]
    /\ InitRest

\* the call of ExportFile::new on the arguments
New ==
    /\ ef.res = "none"
    /\ ef' = ExportFileNew(tables, data_size_bytes, number_of_files)
    /\ UNCHANGED <<inputs, tstate, xstate, rawtext, filevars, schema>>

NextNew == New

SpecNew == InitNew /\ [][NextNew]_vars

----------------------------------------------------------------------------
(* Results, generators and rows *)

\* Result values: Ok(v), Err(e), and a panic unwinding to the caller
Ok(v) == [tag |-> "Ok", v |-> v, e |-> ""]
Err(e) == [tag |-> "Err", v |-> <<>>, e |-> e]
Panic(e) == [tag |-> "Panic", v |-> <<>>, e |-> e]

\* the Result<String> of one generator call
GenOk(v) == [tag |-> "Ok", v |-> v, e |-> ""]
GenErr(e) == [tag |-> "Err", v |-> "", e |-> e]

\* values a "rand" generator may return
RandValues == {"x", "y"}

\* the results one call of a column's generator may have
GeneratorResults(c) ==
    CASE c.generator = "abc" -> {GenOk("ABC")}
      [] c.generator = "rand" -> {GenOk(v) : v \in RandValues}
      [] OTHER -> {GenErr("GeneratorFailed")}

\* the ways the generators of the columns may answer, column by column
FieldChoices(t) ==
    {f \in [1..Len(t.columns) -> UNION {GeneratorResults(t.columns[i]) : i \in 1..Len(t.columns)}] :
        \A i \in 1..Len(t.columns) : f[i] \in GeneratorResults(t.columns[i])}

\* collect::<Result<Vec<String>>>(): the first failure, else all the values
CollectFields(f) ==
    IF \E i \in 1..Len(f) : f[i].tag # "Ok"
    THEN Err(f[CHOOSE i \in 1..Len(f) :
                   f[i].tag # "Ok" /\ \A j \in 1..(i - 1) : f[j].tag = "Ok"].e)
    ELSE Ok([i \in 1..Len(f) |-> f[i].v])

RECURSIVE Join(_, _)
\* Vec<String>::join(delimiter)
Join(buffer, delimiter) ==
    IF Len(buffer) <= 1 THEN buffer
    ELSE <<Head(buffer), delimiter>> \o Join(Tail(buffer), delimiter)

\* Table::generate_table_row_vec for one answer of the generators
RowVecOf(t, f) ==
    LET fields == CollectFields(f) IN
    IF fields.tag # "Ok" THEN fields ELSE Ok(<<t.id_value>> \o fields.v)

\* Table::generate_table_row for one answer of the generators
RowOf(t, f) ==
    LET fields == CollectFields(f) IN
    IF fields.tag # "Ok" THEN fields
    ELSE Ok(Join(<<t.id_value>> \o fields.v, t.delimiter) \o <<"\n">>)

\* the item the map closure of generate_table / generate_table_vec yields,
\* as a piece of the accumulated sequence
RowItems(t, kind) ==
    IF kind = "text" THEN {RowOf(t, f) : f \in FieldChoices(t)}
    ELSE {LET r == RowVecOf(t, f) IN IF r.tag = "Ok" THEN Ok(<<r.v>>) ELSE r :
            f \in FieldChoices(t)}

----------------------------------------------------------------------------
(* The parallel runtime: a range is split into folders, every folder folds *)
(* its items in index order from the identity, adjacent folders merge      *)

Folder(lo, hi, identity) == [lo |-> lo, hi |-> hi, pos |-> lo, acc |-> identity]

\* a folder is done with its range, or full after a failure
Complete(f) == f.pos = f.hi \/ f.acc.tag # "Ok"

SplitAt(fs, k, mid) ==
    SubSeq(fs, 1, k - 1)
    \o <<[fs[k] EXCEPT !.hi = mid], [fs[k] EXCEPT !.lo = mid, !.pos = mid]>>
    \o SubSeq(fs, k + 1, Len(fs))

\* a plausible slip: the operands of the concatenation swapped
TryConcatSwapped(x, y) ==
    IF x.tag = "Panic" THEN x
    ELSE IF y.tag = "Panic" THEN y
    ELSE IF x.tag = "Err" THEN x
    ELSE IF y.tag = "Err" THEN y
    ELSE Ok(y.v \o x.v)

\* the reduce operator |x, y| Ok(x + &y) under try_reduce (a failure is kept,
\* a panic unwinds through the join)
TryConcat(x, y) ==
    IF x.tag = "Panic" THEN x
    ELSE IF y.tag = "Panic" THEN y
    ELSE IF x.tag = "Err" THEN x
    ELSE IF y.tag = "Err" THEN y
    ELSE Ok(x.v \o y.v)

\* folder k has consumed its next item: acc is reduce_op(acc, item)
FoldAt(fs, k, acc) ==
    [fs EXCEPT ![k] = [@ EXCEPT !.pos = @ + 1, !.acc = acc]]

\* folders k and k + 1 are joined: acc is reduce_op(left, right)
MergeAt(fs, k, acc) ==
    SubSeq(fs, 1, k - 1)
    \o <<[lo |-> fs[k].lo, hi |-> fs[k + 1].hi, pos |-> fs[k + 1].hi, acc |-> acc]>>
    \o SubSeq(fs, k + 2, Len(fs))

CanSplit(fs, k) == fs[k].pos = fs[k].lo /\ fs[k].hi - fs[k].lo >= 2 /\ fs[k].acc.tag = "Ok"
CanFold(fs, k) == fs[k].pos < fs[k].hi /\ fs[k].acc.tag = "Ok"
CanSkip(fs, k) == fs[k].pos < fs[k].hi /\ \E j \in 1..Len(fs) : fs[j].acc.tag # "Ok"
CanMerge(fs, k) == k < Len(fs) /\ Complete(fs[k]) /\ Complete(fs[k + 1])
Reduced(fs) == Len(fs) = 1 /\ Complete(fs[1])

----------------------------------------------------------------------------
(* Table::generate_table and Table::generate_table_vec *)

TaskDone(kind, res) ==
    [pc |-> "done", kind |-> kind, folders |-> <<>>, rows |-> <<>>, res |-> res]

\* a plausible slip: the row count rounded up
RowCountCeil(table_size_bytes, row_size_bytes) ==
    (table_size_bytes + row_size_bytes - 1) \div row_size_bytes

\* row_count = table_size_bytes / self.row_size_bytes
RowCount(table_size_bytes, row_size_bytes) == table_size_bytes \div row_size_bytes

\* the sizing of generate_table(_vec) up to the parallel iterator
TaskStarted(t, kind, file_size_bytes) ==
    LET table_size_bytes == ToU64(DecimalMul(DecimalFrom(file_size_bytes), t.percent_size)) IN
    IF ~table_size_bytes.some THEN TaskDone(kind, Err("ConversionTo"))
    ELSE IF t.row_size_bytes = 0 THEN TaskDone(kind, Panic("DivideByZero"))
    ELSE LET row_count == RowCount(table_size_bytes.v, t.row_size_bytes) IN
         [pc |-> "run", kind |-> kind,
          folders |-> <<Folder(0, row_count, Ok(<<>>))>>,
          rows |-> [i \in 1..row_count |-> NoResult],
          res |-> NoResult]

\* the runtime splits a folder of table i's row range
RowSplit(i) ==
    /\ tstate[i].pc = "run"
    /\ \E k \in 1..Len(tstate[i].folders) :
         /\ CanSplit(tstate[i].folders, k)
         /\ \E mid \in (tstate[i].folders[k].lo + 1)..(tstate[i].folders[k].hi - 1) :
              tstate' = [tstate EXCEPT ![i].folders = SplitAt(@, k, mid)]
    /\ UNCHANGED <<inputs, ef, xstate, rawtext, filevars, schema>>

\* a folder maps its next index to a row and folds it in
RowFold(i) ==
    /\ tstate[i].pc = "run"
    /\ \E k \in 1..Len(tstate[i].folders) :
         /\ CanFold(tstate[i].folders, k)
         /\ \E item \in RowItems(tables[i], tstate[i].kind) :
              tstate' = [tstate EXCEPT
                           ![i].folders = FoldAt(@, k, TryConcat(@[k].acc, item)),
                           ![i].rows[tstate[i].folders[k].pos + 1] = item]
    /\ UNCHANGED <<inputs, ef, xstate, rawtext, filevars, schema>>

\* after a failure elsewhere a folder stops without mapping the rest
RowSkip(i) ==
    /\ tstate[i].pc = "run"
    /\ \E k \in 1..Len(tstate[i].folders) :
         /\ CanSkip(tstate[i].folders, k)
         /\ tstate' = [tstate EXCEPT ![i].folders[k].pos = tstate[i].folders[k].hi]
    /\ UNCHANGED <<inputs, ef, xstate, rawtext, filevars, schema>>

\* two adjacent finished folders are merged by the reduce operator
RowMerge(i) ==
    /\ tstate[i].pc = "run"
    /\ \E k \in 1..Len(tstate[i].folders) :
         /\ CanMerge(tstate[i].folders, k)
         /\ tstate' = [tstate EXCEPT ![i].folders = MergeAt(@, k, TryConcat(@[k].acc, @[k + 1].acc))]
    /\ UNCHANGED <<inputs, ef, xstate, rawtext, filevars, schema>>

\* the reduction is complete: generate_table(_vec) returns
TableReturn(i) ==
    /\ tstate[i].pc = "run"
    /\ Reduced(tstate[i].folders)
    /\ tstate' = [tstate EXCEPT ![i].pc = "done", ![i].res = tstate[i].folders[1].acc]
    /\ UNCHANGED <<inputs, ef, xstate, rawtext, filevars, schema>>

\* a direct call table.generate_table(file_size_bytes)
CallGenerateTable ==
    /\ ef.res = "none"
    /\ tstate[1].pc = "idle"
    /\ tstate' = [tstate EXCEPT ![1] = TaskStarted(tables[1], "text", arg_file_size_bytes)]
    /\ UNCHANGED <<inputs, ef, xstate, rawtext, filevars, schema>>

\* a direct call table.generate_table_vec(file_size_bytes)
CallGenerateTableVec ==
    /\ ef.res = "none"
    /\ tstate[1].pc = "idle"
    /\ tstate' = [tstate EXCEPT ![1] = TaskStarted(tables[1], "vec", arg_file_size_bytes)]
    /\ UNCHANGED <<inputs, ef, xstate, rawtext, filevars, schema>>

\* tables of direct generation calls: every percentage, failing generators
DirectTables ==
    {TableNew("A", cols, "|", p) :
        cols \in {<<>>, <<ColA>>, <<ColB>>, <<ColF>>, <<ColA, ColB>>, <<ColA, ColF>>},
        p \in PctValues}

InitTable ==
    /\ tables \in {<<t>> : t \in DirectTables}
    /\ data_size_bytes = 0
    /\ number_of_files = 0
    /\ ef = NotCalled
    /\ arg_file_size_bytes \in 0..MaxFileSize
    /\ tstate = [i \in 1..Len(tables) |-> TaskIdle]
    /\ InitRest

NextTable ==
    \/ CallGenerateTable
    \/ CallGenerateTableVec
    \/ RowSplit(1)
    \/ RowFold(1)
    \/ RowSkip(1)
    \/ RowMerge(1)
    \/ TableReturn(1)

SpecTable == InitTable /\ [][NextTable]_vars

----------------------------------------------------------------------------
(* ExportFile::generate_export and ExportFile::generate_raw_tables *)

\* HashMap with the single entry id -> res
SingletonMap(id, res) == [k \in {id} |-> res]

\* a.into_iter().chain(b).collect(): the entries of a, then those of b,
\* inserted one by one into a new map; a later insert replaces the entry
ChainCollect(a, b) ==
    [k \in (DOMAIN a) \cup (DOMAIN b) |-> IF k \in DOMAIN b THEN b[k] ELSE a[k]]

\* the reduce operator of generate_raw_tables (a panic unwinds through the join)
RawChain(x, y) ==
    IF x.tag = "Panic" THEN x
    ELSE IF y.tag = "Panic" THEN y
    ELSE Ok(ChainCollect(x.v, y.v))

\* what the map closure of generate_raw_tables yields for a table
RawItem(t, res) ==
    IF res.tag = "Panic" THEN res ELSE Ok(SingletonMap(t.id_value, res))

\* the call self.generate_export() on a constructed ExportFile
CallGenerateExport ==
    /\ ef.res = "Ok"
    /\ xstate.pc = "idle"
    /\ xstate' = [pc |-> "run", op |-> "export",
                  folders |-> <<Folder(0, Len(tables), Ok(<<>>))>>, res |-> NoResult]
    /\ UNCHANGED <<inputs, ef, tstate, rawtext, filevars, schema>>

\* the call self.generate_raw_tables() on a constructed ExportFile
CallGenerateRawTables ==
    /\ ef.res = "Ok"
    /\ xstate.pc = "idle"
    /\ xstate' = [pc |-> "run", op |-> "raw",
                  folders |-> <<Folder(0, Len(tables), Ok(<<>>))>>, res |-> NoResult]
    /\ UNCHANGED <<inputs, ef, tstate, rawtext, filevars, schema>>

\* the runtime splits a folder of the table list
TableSplit ==
    /\ xstate.pc = "run"
    /\ \E k \in 1..Len(xstate.folders) :
         /\ CanSplit(xstate.folders, k)
         /\ \E mid \in (xstate.folders[k].lo + 1)..(xstate.folders[k].hi - 1) :
              xstate' = [xstate EXCEPT !.folders = SplitAt(@, k, mid)]
    /\ UNCHANGED <<inputs, ef, tstate, rawtext, filevars, schema>>

\* a folder calls generate_table(_vec) on its next table
TableStart(i) ==
    /\ xstate.pc = "run"
    /\ tstate[i].pc = "idle"
    /\ \E k \in 1..Len(xstate.folders) :
         CanFold(xstate.folders, k) /\ xstate.folders[k].pos = i - 1
    /\ tstate' = [tstate EXCEPT ![i] =
                    TaskStarted(tables[i], IF xstate.op = "export" THEN "text" ELSE "vec",
                                ef.file_size_bytes)]
    /\ UNCHANGED <<inputs, ef, xstate, rawtext, filevars, schema>>

\* a folder folds in the outcome of its next table
TableFold ==
    /\ xstate.pc = "run"
    /\ \E k \in 1..Len(xstate.folders) :
         /\ CanFold(xstate.folders, k)
         /\ LET i == xstate.folders[k].pos + 1 IN
            /\ tstate[i].pc = "done"
            /\ xstate' = [xstate EXCEPT !.folders =
                            IF xstate.op = "export"
                            THEN FoldAt(@, k, TryConcat(@[k].acc, tstate[i].res))
                            ELSE FoldAt(@, k, RawChain(@[k].acc,
                                                       RawItem(tables[i], tstate[i].res)))]
    /\ UNCHANGED <<inputs, ef, tstate, rawtext, filevars, schema>>

\* after a failure elsewhere a folder stops without generating its tables
TableSkip ==
    /\ xstate.pc = "run"
    /\ \E k \in 1..Len(xstate.folders) :
         /\ CanSkip(xstate.folders, k)
         /\ tstate[xstate.folders[k].pos + 1].pc = "idle"
         /\ xstate' = [xstate EXCEPT !.folders[k].pos = xstate.folders[k].hi]
    /\ UNCHANGED <<inputs, ef, tstate, rawtext, filevars, schema>>

\* two adjacent finished folders are merged by the reduce operator
TableMerge ==
    /\ xstate.pc = "run"
    /\ \E k \in 1..Len(xstate.folders) :
         /\ CanMerge(xstate.folders, k)
         /\ xstate' = [xstate EXCEPT !.folders =
                         IF xstate.op = "export"
                         THEN MergeAt(@, k, TryConcat(@[k].acc, @[k + 1].acc))
                         ELSE MergeAt(@, k, RawChain(@[k].acc, @[k + 1].acc))]
    /\ UNCHANGED <<inputs, ef, tstate, rawtext, filevars, schema>>

\* the reduction is complete: generate_export / generate_raw_tables returns
ExportReturn ==
    /\ xstate.pc = "run"
    /\ Reduced(xstate.folders)
    /\ xstate' = [xstate EXCEPT !.pc = "done", !.folders = <<>>,
                                !.res = xstate.folders[1].acc]
    /\ UNCHANGED <<inputs, ef, tstate, rawtext, filevars, schema>>

RECURSIVE ConcatAll(_)
\* the strings of a sequence, concatenated in order
ConcatAll(ss) == IF ss = <<>> THEN <<>> ELSE Head(ss) \o ConcatAll(Tail(ss))

\* the orders in which a HashMap may iterate over its keys
KeyOrders(m) ==
    {f \in [1..Cardinality(DOMAIN m) -> DOMAIN m] :
        \A a, b \in 1..Cardinality(DOMAIN m) : a # b => f[a] # f[b]}

\* the map closure of raw_tables_to_string on one entry: the Ok rows, each
\* joined by the delimiter, concatenated; nothing for an Err entry
EntryText(r, delimiter) ==
    IF r.tag = "Ok" THEN ConcatAll([k \in 1..Len(r.v) |-> Join(r.v[k], delimiter)])
    ELSE <<>>

\* ExportFile::raw_tables_to_string(tables, delimiter) for one iteration order
RawTablesToStringOf(m, order, delimiter) ==
    Ok(ConcatAll([j \in 1..Len(order) |-> EntryText(m[order[j]], delimiter)]))

\* raw_tables_to_string on the mapping generate_raw_tables returned
RawTablesToString ==
    /\ xstate.pc = "done"
    /\ xstate.op = "raw"
    /\ xstate.res.tag = "Ok"
    /\ rawtext.tag = "none"
    /\ \E order \in KeyOrders(xstate.res.v), delimiter \in {"|", ","} :
         rawtext' = RawTablesToStringOf(xstate.res.v, order, delimiter)
    /\ UNCHANGED <<inputs, ef, tstate, xstate, filevars, schema>>

\* the column lists of the tables that generate: no column, generated
\* values, constant values, a failing generator
GenColumns == {<<>>, <<ColA>>, <<ColB>>, <<ColF>>}

TableIds == <<"A", "B", "C", "D", "E">>

\* the ways n percentages, none below lowest, sum to 1.0 (construction
\* rejects the lists with another sum)
PercentSplits(n, lowest) ==
    {pct \in [1..n -> lowest..PctScale] : SumSeq(pct) = DecimalOne}

\* the table lists of at most n tables with ids and column lists from the
\* given sets and percentages that sum to 1.0
TableLists(n, idset, colset, lowest) ==
    UNION {{[i \in 1..k |-> TableNew(ids[i], cols[i], "|", pct[i])] :
              ids \in [1..k -> idset],
              cols \in [1..k -> colset],
              pct \in PercentSplits(k, lowest)} :
           k \in 0..n}

\* table lists of generate_export: the ids follow the position
ExportTableLists(n) ==
    UNION {{[i \in 1..k |-> TableNew(TableIds[i], cols[i], "|", pct[i])] :
              cols \in [1..k -> GenColumns], pct \in PercentSplits(k, 0)} :
           k \in 0..n}

\* table lists of generate_raw_tables: ids may repeat
RawTableLists(n) == TableLists(n, {"A", "B"}, GenColumns, 0)

InitGen(lists) ==
    /\ tables \in lists
    /\ data_size_bytes \in 0..MaxGenData
    /\ number_of_files \in 0..MaxFiles
    /\ ef = NotCalled
    /\ arg_file_size_bytes = 0
    /\ tstate = [i \in 1..Len(tables) |-> TaskIdle]
    /\ InitRest

InitExport == InitGen(ExportTableLists(MaxGenTables))

InitRaw == InitGen(RawTableLists(MaxGenTables))

NextExport ==
    \/ New
    \/ CallGenerateExport
    \/ TableSplit
    \/ \E i \in 1..Len(tables) : TableStart(i)
    \/ TableFold
    \/ TableSkip
    \/ TableMerge
    \/ ExportReturn
    \/ \E i \in 1..Len(tables) : RowSplit(i)
    \/ \E i \in 1..Len(tables) : RowFold(i)
    \/ \E i \in 1..Len(tables) : RowSkip(i)
    \/ \E i \in 1..Len(tables) : RowMerge(i)
    \/ \E i \in 1..Len(tables) : TableReturn(i)

SpecExport == InitExport /\ [][NextExport]_vars

NextRaw ==
    \/ New
    \/ CallGenerateRawTables
    \/ TableSplit
    \/ \E i \in 1..Len(tables) : TableStart(i)
    \/ TableFold
    \/ TableSkip
    \/ TableMerge
    \/ ExportReturn
    \/ RawTablesToString
    \/ \E i \in 1..Len(tables) : RowSplit(i)
    \/ \E i \in 1..Len(tables) : RowFold(i)
    \/ \E i \in 1..Len(tables) : RowSkip(i)
    \/ \E i \in 1..Len(tables) : RowMerge(i)
    \/ \E i \in 1..Len(tables) : TableReturn(i)

SpecRaw == InitRaw /\ [][NextRaw]_vars

----------------------------------------------------------------------------
(* ExportFile::generate_all_files and generate_export_to_file *)

\* the results generate_table(file_size_bytes) can return on table t
TableOutcomes(t, file_size_bytes) ==
    LET table_size_bytes == ToU64(DecimalMul(DecimalFrom(file_size_bytes), t.percent_size)) IN
    IF ~table_size_bytes.some THEN {Err("ConversionTo")}
    ELSE IF t.row_size_bytes = 0 THEN {Panic("DivideByZero")}
    ELSE LET row_count == RowCount(table_size_bytes.v, t.row_size_bytes)
             rows == RowItems(t, "text") IN
         IF row_count >= 1 /\ \E r \in rows : r.tag # "Ok"
         THEN {r \in rows : r.tag # "Ok"}
         ELSE {Ok(ConcatAll(f)) : f \in [1..row_count -> {r.v : r \in rows}]}

\* the results self.generate_export() can return: the tables' texts in
\* declaration order, or the failure or panic of one of the tables
ExportOutcomes(tbls, file_size_bytes) ==
    LET choices == {c \in [1..Len(tbls) -> UNION {TableOutcomes(tbls[i], file_size_bytes) :
                                                    i \in 1..Len(tbls)}] :
                      \A i \in 1..Len(tbls) : c[i] \in TableOutcomes(tbls[i], file_size_bytes)} IN
    UNION {IF \A i \in 1..Len(tbls) : c[i].tag = "Ok"
           THEN {Ok(ConcatAll([i \in 1..Len(tbls) |-> c[i].v]))}
           ELSE {c[i] : i \in {j \in 1..Len(tbls) : c[j].tag # "Ok"}} : c \in choices}

DigitChars == <<"0", "1", "2", "3", "4", "5", "6", "7", "8", "9">>

RECURSIVE Digits(_)
\* format!("{}", n) for an unsigned integer: its decimal digits
Digits(n) ==
    IF n < 10 THEN <<DigitChars[n + 1]>>
    ELSE Digits(n \div 10) \o <<DigitChars[(n % 10) + 1]>>

\* format!("file_{}_{}_{}.txt", file_size_bytes, number_of_files, x)
FileName(file_size_bytes, files, x) ==
    <<"file_">> \o Digits(file_size_bytes) \o <<"_">> \o Digits(files)
        \o <<"_">> \o Digits(x) \o <<".txt">>

PathOf(x) == FileName(ef.file_size_bytes, number_of_files, x)

\* File::create(path) and write_all(content) on the folder: the file at
\* path is created or truncated, then holds the content
WithFile(files, path, content) ==
    {f \in files : f.path # path} \cup {[path |-> path, content |-> content]}

FileTaskIdle == [pc |-> "idle", exported |-> NoResult, res |-> NoResult]

\* the call self.generate_all_files(folder_path): create_dir_all succeeds
\* and the index range is handed to the runtime
CallGenerateAllFiles ==
    /\ ef.res = "Ok"
    /\ all_files.pc = "idle"
    /\ all_files' = [all_files EXCEPT !.pc = "run"]
    /\ ftask' = [x \in 0..(number_of_files - 1) |-> FileTaskIdle]
    /\ UNCHANGED <<inputs, ef, tstate, xstate, rawtext, fsys, schema>>

\* create_dir_all fails: generate_all_files returns the error
CreateDirFails ==
    /\ ef.res = "Ok"
    /\ all_files.pc = "idle"
    /\ all_files' = [pc |-> "done", res |-> Err("io")]
    /\ UNCHANGED <<inputs, ef, tstate, xstate, rawtext, ftask, fsys, schema>>

\* generate_export_to_file: let exported = self.generate_export()?
FileGenerate(x) ==
    /\ all_files.pc = "run"
    /\ ftask[x].pc = "idle"
    /\ \E r \in ExportOutcomes(tables, ef.file_size_bytes) :
         ftask' = [ftask EXCEPT ![x] =
                     IF r.tag = "Ok" THEN [pc |-> "generated", exported |-> r, res |-> NoResult]
                     ELSE [pc |-> "failed", exported |-> NoResult, res |-> r]]
    /\ UNCHANGED <<inputs, ef, tstate, xstate, rawtext, all_files, fsys, schema>>

\* generate_export_to_file: File::create(path)? succeeds
FileCreate(x) ==
    /\ all_files.pc = "run"
    /\ ftask[x].pc = "generated"
    /\ fsys' = WithFile(fsys, PathOf(x), <<>>)
    /\ ftask' = [ftask EXCEPT ![x].pc = "created"]
    /\ UNCHANGED <<inputs, ef, tstate, xstate, rawtext, all_files, schema>>

\* generate_export_to_file: file.write_all(exported)? succeeds
FileWrite(x) ==
    /\ all_files.pc = "run"
    /\ ftask[x].pc = "created"
    /\ fsys' = WithFile(fsys, PathOf(x), ftask[x].exported.v)
    /\ ftask' = [ftask EXCEPT ![x].pc = "written", ![x].res = Ok(<<>>)]
    /\ UNCHANGED <<inputs, ef, tstate, xstate, rawtext, all_files, schema>>

\* File::create or write_all fails: the closure returns the error
FileIoFails(x) ==
    /\ all_files.pc = "run"
    /\ ftask[x].pc \in {"generated", "created"}
    /\ ftask' = [ftask EXCEPT ![x].pc = "failed", ![x].res = Err("io")]
    /\ UNCHANGED <<inputs, ef, tstate, xstate, rawtext, all_files, fsys, schema>>

\* try_for_each: after a failure a closure not yet started is not run
FileSkip(x) ==
    /\ all_files.pc = "run"
    /\ ftask[x].pc = "idle"
    /\ \E y \in DOMAIN ftask : ftask[y].pc = "failed"
    /\ ftask' = [ftask EXCEPT ![x].pc = "skipped"]
    /\ UNCHANGED <<inputs, ef, tstate, xstate, rawtext, all_files, fsys, schema>>

\* the outcome of try_for_each(...)?: a panic of a closure unwinds, else the
\* error of a failed closure, else Ok(())
AllFilesResult(tasks) ==
    IF \E x \in DOMAIN tasks : tasks[x].res.tag = "Panic"
    THEN tasks[CHOOSE x \in DOMAIN tasks : tasks[x].res.tag = "Panic"].res
    ELSE IF \E x \in DOMAIN tasks : tasks[x].res.tag = "Err"
    THEN tasks[CHOOSE x \in DOMAIN tasks : tasks[x].res.tag = "Err"].res
    ELSE Ok(<<>>)

\* every closure is over: generate_all_files returns
AllFilesReturn ==
    /\ all_files.pc = "run"
    /\ \A x \in DOMAIN ftask : ftask[x].pc \in {"written", "failed", "skipped"}
    /\ all_files' = [pc |-> "done", res |-> AllFilesResult(ftask)]
    /\ UNCHANGED <<inputs, ef, tstate, xstate, rawtext, ftask, fsys, schema>>

InitFiles == InitGen(ExportTableLists(MaxGenTables))

NextFiles ==
    \/ New
    \/ CallGenerateAllFiles
    \/ CreateDirFails
    \/ \E x \in DOMAIN ftask : FileGenerate(x)
    \/ \E x \in DOMAIN ftask : FileCreate(x)
    \/ \E x \in DOMAIN ftask : FileWrite(x)
    \/ \E x \in DOMAIN ftask : FileIoFails(x)
    \/ \E x \in DOMAIN ftask : FileSkip(x)
    \/ AllFilesReturn

SpecFiles == InitFiles /\ [][NextFiles]_vars

----------------------------------------------------------------------------
(* ExportFile::build_schema *)

\* HashMap::insert
MapInsert(m, k, v) == [x \in (DOMAIN m) \cup {k} |-> IF x = k THEN v ELSE m[x]]

RECURSIVE ColumnsFrom(_, _, _)
\* the inner loop of build_schema from column k on: the first repeated name
\* ends it, else the columns' name -> sql_type map
ColumnsFrom(cols, k, columns) ==
    IF k > Len(cols) THEN [dup |-> FALSE, column |-> "", columns |-> columns]
    ELSE IF cols[k].name \in DOMAIN columns
         THEN [dup |-> TRUE, column |-> cols[k].name, columns |-> columns]
    ELSE ColumnsFrom(cols, k + 1, MapInsert(columns, cols[k].name, cols[k].sql_type))

SchemaFailed(e, table, column) ==
    [res |-> e, table |-> table, column |-> column, schema |-> <<>>]

RECURSIVE SchemaFromIdFirst(_, _, _)
\* a plausible slip: the table id checked before the table's columns
SchemaFromIdFirst(tbls, i, sch) ==
    IF i > Len(tbls) THEN [res |-> "Ok", table |-> "", column |-> "", schema |-> sch]
    ELSE LET c == ColumnsFrom(tbls[i].columns, 1, <<>>) IN
         IF tbls[i].id_value \in DOMAIN sch
         THEN SchemaFailed("DuplicateTables", tbls[i].id_value, "")
         ELSE IF c.dup THEN SchemaFailed("DuplicateColumns", tbls[i].id_value, c.column)
         ELSE SchemaFromIdFirst(tbls, i + 1, MapInsert(sch, tbls[i].id_value, c.columns))

BuildSchemaIdFirst(tbls) == SchemaFromIdFirst(tbls, 1, <<>>)

RECURSIVE SchemaFrom(_, _, _)
\* the outer loop of build_schema from table i on
SchemaFrom(tbls, i, sch) ==
    IF i > Len(tbls) THEN [res |-> "Ok", table |-> "", column |-> "", schema |-> sch]
    ELSE LET c == ColumnsFrom(tbls[i].columns, 1, <<>>) IN
         IF c.dup THEN SchemaFailed("DuplicateColumns", tbls[i].id_value, c.column)
         ELSE IF tbls[i].id_value \in DOMAIN sch
         THEN SchemaFailed("DuplicateTables", tbls[i].id_value, "")
         ELSE SchemaFrom(tbls, i + 1, MapInsert(sch, tbls[i].id_value, c.columns))

\* self.build_schema()
BuildSchema(tbls) == SchemaFrom(tbls, 1, <<>>)

\* the call self.build_schema() on a constructed ExportFile
CallBuildSchema ==
    /\ ef.res = "Ok"
    /\ schema.res = "none"
    /\ schema' = BuildSchema(tables)
    /\ UNCHANGED <<inputs, ef, tstate, xstate, rawtext, filevars>>

SchemaColumns == {<<ColA>>, <<ColA, ColB>>, <<ColA, ColA2>>, <<ColB, ColA, ColB>>}

SchemaTableLists(n) == TableLists(n, {"A", "B"}, SchemaColumns, 1)

InitSchema ==
    /\ tables \in SchemaTableLists(MaxSchemaTables)
    /\ data_size_bytes = MaxData * PctScale
    /\ number_of_files \in 1..MaxFiles
    /\ ef = NotCalled
    /\ arg_file_size_bytes = 0
    /\ tstate = [i \in 1..Len(tables) |-> TaskIdle]
    /\ InitRest

NextSchema ==
    \/ New
    \/ CallBuildSchema

SpecSchema == InitSchema /\ [][NextSchema]_vars

----------------------------------------------------------------------------
(* Properties of ExportFile::new, checked under SpecNew *)

NewCalled == ef.res # "none"

\* the table's share of a file of floor(data / files) bytes is below one row
TooSmallFor(t, data, files) ==
    (data \div files) * t.percent_size < t.row_size_bytes * PctScale

SomeTableTooSmall ==
    \E i \in 1..Len(tables) : TooSmallFor(tables[i], data_size_bytes, number_of_files)

PercentSum == SumSeq([i \in 1..Len(tables) |-> tables[i].percent_size])

PassesEarlierChecks ==
    /\ 1 <= number_of_files
    /\ number_of_files < data_size_bytes
    /\ tables # <<>>
    /\ ~SomeTableTooSmall

C2_TooSmallTableRejected ==
    (NewCalled /\ number_of_files >= 1 /\ SomeTableTooSmall) => ef.res = "TooManyFiles"

C2_Witness ==
    /\ NewCalled
    /\ 1 <= number_of_files
    /\ number_of_files < data_size_bytes
    /\ Len(tables) = 2
    /\ ~TooSmallFor(tables[1], data_size_bytes, number_of_files)
    /\ TooSmallFor(tables[2], data_size_bytes, number_of_files)
    /\ ef.res = "TooManyFiles"

\* C8: ExportFile::new is total: it returns an ExportFile or one of the errors
\* TooManyFiles, ReduceFailed, SumPercentSizeIncorrect, and never aborts.
C8_NewIsTotal ==
    NewCalled => ef.res \in {"Ok", "TooManyFiles", "ReduceFailed", "SumPercentSizeIncorrect"}

----------------------------------------------------------------------------
(* Properties of Table::generate_table(_vec), checked under SpecTable *)

RECURSIVE CountOf(_, _)
\* how often the token x occurs in the text s
CountOf(s, x) ==
    IF s = <<>> THEN 0 ELSE (IF Head(s) = x THEN 1 ELSE 0) + CountOf(Tail(s), x)

\* floor(floor(file_size_bytes * percent_size) / row_size_bytes)
ExpectedRowCount(t, file_size_bytes) ==
    ((file_size_bytes * t.percent_size) \div PctScale) \div t.row_size_bytes

\* the rows one generate_table_row call on t can return
PossibleRows(t) == {r \in RowItems(t, "text") : r.tag = "Ok"}

NoGeneratorFailed(i) == \A k \in 1..Len(tstate[i].rows) : tstate[i].rows[k].tag # "Err"

\* the call on table i returned exactly n rows, each a generate_table_row
\* (generate_table_row_vec) result, in the order of their indices
ReturnedRows(i, n) ==
    /\ tstate[i].res.tag = "Ok"
    /\ Len(tstate[i].rows) = n
    /\ \A k \in 1..n : tstate[i].rows[k].tag = "Ok"
    /\ tstate[i].res.v = ConcatAll([k \in 1..n |-> tstate[i].rows[k].v])
    /\ tstate[i].kind = "text" =>
         /\ CountOf(tstate[i].res.v, "\n") = n
         /\ \A k \in 1..n : tstate[i].rows[k] \in PossibleRows(tables[i])
    /\ tstate[i].kind = "vec" => Len(tstate[i].res.v) = n

\* C3, as stated: for every table with row_size_bytes >= 1 and every
\* file_size_bytes, when no column generator fails, generate_table and
\* generate_table_vec return exactly
\* floor(floor(file_size_bytes * percent_size) / row_size_bytes) rows.
C3_RowCountForEveryTable ==
    (/\ ef.res = "none"
     /\ tstate[1].pc = "done"
     /\ tables[1].row_size_bytes >= 1
     /\ NoGeneratorFailed(1))
    => ReturnedRows(1, ExpectedRowCount(tables[1], arg_file_size_bytes))

\* C3, amended: the same, for tables whose percent_size is not negative (and
\* whose product file_size_bytes * percent_size fits a u64); for a negative
\* product the conversion to u64 fails and the call returns that error.
C3_RowCount ==
    (/\ ef.res = "none"
     /\ tstate[1].pc = "done"
     /\ tables[1].row_size_bytes >= 1
     /\ NoGeneratorFailed(1))
    => IF tables[1].percent_size >= 0
       THEN ReturnedRows(1, ExpectedRowCount(tables[1], arg_file_size_bytes))
       ELSE arg_file_size_bytes >= 1 => tstate[1].res = Err("ConversionTo")

C3_Witness ==
    /\ tstate[1].pc = "done"
    /\ tstate[1].kind = "text"
    /\ tables[1].row_size_bytes >= 2
    /\ (arg_file_size_bytes * tables[1].percent_size) % PctScale # 0
    /\ ((arg_file_size_bytes * tables[1].percent_size) \div PctScale)
           % tables[1].row_size_bytes # 0
    /\ ExpectedRowCount(tables[1], arg_file_size_bytes) >= 1
    /\ ReturnedRows(1, ExpectedRowCount(tables[1], arg_file_size_bytes))

----------------------------------------------------------------------------
(* Properties of generate_export, checked under SpecExport *)

ExportReturned == xstate.pc = "done" /\ xstate.op = "export"

\* the text of table i is its rows in the order of their indices
RowsInIndexOrder(i) ==
    /\ tstate[i].pc = "done"
    /\ tstate[i].res.tag = "Ok"
    /\ \A k \in 1..Len(tstate[i].rows) : tstate[i].rows[k].tag = "Ok"
    /\ tstate[i].res.v = ConcatAll([k \in 1..Len(tstate[i].rows) |-> tstate[i].rows[k].v])

ConstantGenerators == \A i \in 1..Len(tables) : \A c \in 1..Len(tables[i].columns) :
                         tables[i].columns[c].generator = "abc"

\* the row of table t when every generator returns "ABC"
ConstantRow(t) ==
    Join(<<t.id_value>> \o [c \in 1..Len(t.columns) |-> "ABC"], t.delimiter) \o <<"\n">>

\* the export of an ExportFile whose generators all return "ABC": a function
\* of the tables and file_size_bytes alone
ConstantExport(tbls, file_size_bytes) ==
    ConcatAll([i \in 1..Len(tbls) |->
        ConcatAll([k \in 1..ExpectedRowCount(tbls[i], file_size_bytes) |-> ConstantRow(tbls[i])])])

\* C4: whatever the splits and merges of the runtime, the text generate_export
\* returns is the texts of the tables in declaration order, each the table's
\* rows in index order; with constant generators the text is a function of the
\* ExportFile alone, so that any two calls return the same bytes.
C4_ExportInOrder ==
    (ExportReturned /\ xstate.res.tag = "Ok") =>
        /\ \A i \in 1..Len(tables) : RowsInIndexOrder(i)
        /\ xstate.res.v = ConcatAll([i \in 1..Len(tables) |-> tstate[i].res.v])
        /\ xstate.res \in ExportOutcomes(tables, ef.file_size_bytes)
        /\ ConstantGenerators => xstate.res.v = ConstantExport(tables, ef.file_size_bytes)

C4_Witness ==
    /\ ExportReturned
    /\ xstate.res.tag = "Ok"
    /\ Len(tables) = 2
    /\ Len(tstate[1].rows) = 2
    /\ Len(tstate[2].rows) = 2
    /\ tstate[1].rows[1] # tstate[1].rows[2]
    /\ xstate.res.v = tstate[1].rows[1].v \o tstate[1].rows[2].v
                        \o tstate[2].rows[1].v \o tstate[2].rows[2].v

AnyGeneratorFailed == \E i \in 1..Len(tables) : ~NoGeneratorFailed(i)

\* C9: every ExportFile that ExportFile::new accepted can generate: when no
\* generator fails, generate_export returns a text with at least one row of
\* every table.
C9_AcceptedExportGenerates ==
    (ExportReturned /\ ~AnyGeneratorFailed) =>
        /\ xstate.res.tag = "Ok"
        /\ \A i \in 1..Len(tables) : Len(tstate[i].rows) >= 1 /\ RowsInIndexOrder(i)

----------------------------------------------------------------------------
(* Properties of the structured path, checked under SpecRaw *)

RawReturned == xstate.pc = "done" /\ xstate.op = "raw"

\* C7: when a generator call fails during a generation operation, the
\* operation reports a failure and returns no partial result; on the
\* structured path, generate_raw_tables followed by raw_tables_to_string
\* returns no text built from the tables that succeeded.
C7_NoPartialResult ==
    /\ \A i \in 1..Len(tables) :
         (tstate[i].pc = "done" /\ ~NoGeneratorFailed(i)) => tstate[i].res.tag = "Err"
    /\ (AnyGeneratorFailed /\ rawtext.tag # "none") => rawtext.tag # "Ok"

\* C10: generate_raw_tables returns a mapping with one entry per table, and
\* the entry of every table holds the rows generated for that table.
C10_RawAccountsForEveryTable ==
    (RawReturned /\ xstate.res.tag = "Ok") =>
        /\ Cardinality(DOMAIN xstate.res.v) = Len(tables)
        /\ \A i \in 1..Len(tables) :
             /\ tables[i].id_value \in DOMAIN xstate.res.v
             /\ xstate.res.v[tables[i].id_value] = tstate[i].res

----------------------------------------------------------------------------
(* Properties of generate_all_files, checked under SpecFiles *)

AllFilesReturned == all_files.pc = "done" /\ DOMAIN ftask # {}

NoFileTaskFailedWith(e) == \A x \in DOMAIN ftask : ftask[x].res.e # e

\* C6: when every generator call and every file write succeeds,
\* generate_all_files on a fresh folder ends with exactly number_of_files
\* files, file_<file_size_bytes>_<number_of_files>_<index>.txt for every index
\* below number_of_files, each holding the export generated for it; no two
\* indices share a path.
C6_AllFilesWritten ==
    (AllFilesReturned /\ NoFileTaskFailedWith("GeneratorFailed") /\ NoFileTaskFailedWith("io")) =>
        /\ all_files.res.tag = "Ok"
        /\ Cardinality(fsys) = number_of_files
        /\ {f.path : f \in fsys} = {PathOf(x) : x \in 0..(number_of_files - 1)}
        /\ \A x, y \in 0..(number_of_files - 1) : x # y => PathOf(x) # PathOf(y)
        /\ \A x \in 0..(number_of_files - 1) :
             /\ ftask[x].exported \in ExportOutcomes(tables, ef.file_size_bytes)
             /\ [path |-> PathOf(x), content |-> ftask[x].exported.v] \in fsys

----------------------------------------------------------------------------
(* Properties of build_schema, checked under SpecSchema *)

SchemaBuilt == schema.res # "none"

RepeatsAt(t, b) == \E a \in 1..(b - 1) : t.columns[a].name = t.columns[b].name

HasRepeatedColumn(t) == \E b \in 1..Len(t.columns) : RepeatsAt(t, b)

\* the first column of t whose name an earlier column of t has
FirstRepeatedColumn(t) ==
    t.columns[CHOOSE b \in 1..Len(t.columns) :
                 RepeatsAt(t, b) /\ \A a \in 1..(b - 1) : ~RepeatsAt(t, a)].name

HasEarlierId(i) == \E j \in 1..(i - 1) : tables[j].id_value = tables[i].id_value

Defective(i) == HasRepeatedColumn(tables[i]) \/ HasEarlierId(i)

FirstDefective == CHOOSE i \in 1..Len(tables) : Defective(i) /\ \A j \in 1..(i - 1) : ~Defective(j)

\* C5: build_schema reports the first violation in declaration order:
\* DuplicateColumns for a table that repeats a column name (also when its id
\* repeats an earlier id), DuplicateTables for a table whose id an earlier
\* table has; without a violation it returns one entry per table id, mapping
\* the table's column names to their sql_type.
C5_SchemaFirstViolation ==
    SchemaBuilt =>
        IF \E i \in 1..Len(tables) : Defective(i)
        THEN IF HasRepeatedColumn(tables[FirstDefective])
             THEN /\ schema.res = "DuplicateColumns"
                  /\ schema.table = tables[FirstDefective].id_value
                  /\ schema.column = FirstRepeatedColumn(tables[FirstDefective])
             ELSE /\ schema.res = "DuplicateTables"
                  /\ schema.table = tables[FirstDefective].id_value
        ELSE /\ schema.res = "Ok"
             /\ DOMAIN schema.schema = {tables[i].id_value : i \in 1..Len(tables)}
             /\ Cardinality(DOMAIN schema.schema) = Len(tables)
             /\ \A i \in 1..Len(tables) :
                  LET m == schema.schema[tables[i].id_value] IN
                  /\ DOMAIN m = {tables[i].columns[c].name : c \in 1..Len(tables[i].columns)}
                  /\ \A c \in 1..Len(tables[i].columns) :
                       m[tables[i].columns[c].name] = tables[i].columns[c].sql_type

C5_Witness ==
    /\ SchemaBuilt
    /\ Len(tables) = 3
    /\ ~Defective(1)
    /\ HasRepeatedColumn(tables[2])
    /\ HasEarlierId(2)
    /\ schema.res = "DuplicateColumns"
    /\ schema.table = tables[2].id_value

====
